---- MODULE Spec2Model ----
(***************************************************************************)
(* Model of src/notify.py: the BSE results notifier.  One run of main()    *)
(* loads the watermark (load_state), fetches announcements, normalizes     *)
(* their ids, selects the unseen ones, filters them, calls tg_send for     *)
(* each selected one and finally saves the newest id seen (save_state).    *)
(***************************************************************************)
EXTENDS Integers, Sequences, FiniteSets, TLC

\* ------------------------------------------------------------------ bounds
\* Largest upstream announcement id in the modelled feed.
MaxId == 3
\* Largest number of announcements one fetch returns.
MaxBatch == 2

\* Python processes that run main() on the same working directory.
Procs == {1, 2}

\* ------------------------------------------------ Python values in a record
\* A raw JSON value of an announcement field: None, an int or a str.
None == [t |-> "none", n |-> 0, s |-> ""]
IntV(n) == [t |-> "int", n |-> n, s |-> ""]
StrV(s) == [t |-> "str", n |-> 0, s |-> s]

\* Python truthiness, as used by `x or y` : None, 0 and "" are falsy.
Truthy(v) ==
    CASE v.t = "none" -> FALSE
      [] v.t = "int"  -> v.n # 0
      [] OTHER        -> v.s # ""

\* x or y
Or(x, y) == IF Truthy(x) THEN x ELSE y

\* The integer literals among the strings of the modelled feed: int(s)
\* succeeds on exactly these strings and raises ValueError on the others.
IntLiteral == ("0" :> 0) @@ ("2" :> 2) @@ (" 3 " :> 3)

\* int(v) either returns an integer or raises ValueError / TypeError.
PyInt(v) ==
    CASE v.t = "int" -> [ok |-> TRUE, val |-> v.n]
      [] v.t = "str" /\ v.s \in DOMAIN IntLiteral
                     -> [ok |-> TRUE, val |-> IntLiteral[v.s]]
      [] OTHER       -> [ok |-> FALSE, val |-> 0]

\* str.strip() on the strings of the modelled feed.
Strip(s) ==
    CASE s = " 500325 " -> "500325"
      [] s = "   "      -> ""
      [] s = " 3 "      -> "3"
      [] OTHER          -> s

\* str(v) for a SCRIP_CD value (after `or ""`, so never None).
IntRepr == (500325 :> "500325") @@ (532540 :> "532540")
PyStr(v) == IF v.t = "int" THEN IntRepr[v.n] ELSE v.s

\* RESULTS_RE.search(text) on the texts of the modelled feed.  No alternative
\* of the pattern can match across the " | " separator that joins the fields
\* (none contains "|"), so a search of the joined text succeeds iff the search
\* of one of the joined fields does.
ResultsTexts ==
    { "Unaudited Financial Results for Quarter Ended Sept 2025",
      "financial results",
      "Reg. 33" }
RESULTS_RE_search(fields) == \E i \in 1..Len(fields) : fields[i] \in ResultsTexts

\* --------------------------------------------------------- announcements
\* One element of page_data['Table']: the keys notify.py reads.
Ann(sno, seq, id, ann_title, ann_type, code) ==
    [ S_NO |-> sno, SEQ_NO |-> seq, id |-> id,
      ANN_TITLE |-> ann_title, ANN_TYPE |-> ann_type,
      description |-> None, title |-> None, SCRIP_CD |-> code ]

ResultsTitle == StrV("Unaudited Financial Results for Quarter Ended Sept 2025")
OtherTitle == StrV("Outcome of Board Meeting")

\* The announcements the modelled feed can return.
Feed ==
    { Ann(IntV(n), None, None, ResultsTitle, None, StrV("500325")) : n \in 1..MaxId }
    \cup
    { \* a filing that is not a results filing
      Ann(IntV(2), None, None, OtherTitle, StrV("Company Update"), StrV("500325")),
      \* a results filing of a company outside the watchlist
      Ann(IntV(1), None, None, ResultsTitle, None, IntV(532540)),
      \* no id field at all
      Ann(None, None, None, ResultsTitle, None, IntV(500325)),
      \* S_NO is 0, SEQ_NO is the string "2"; only ANN_TYPE matches
      Ann(IntV(0), StrV("2"), None, StrV("   "), StrV("financial results"),
          StrV(" 500325 ")),
      \* S_NO is not a number, SEQ_NO is
      Ann(StrV("N/A"), IntV(2), None, ResultsTitle, None, StrV("500325")),
      \* a negative id, no company code
      Ann(None, None, IntV(-2), StrV("Reg. 33"), None, None) }

\* Every list fetch_announcements can return in the model.
RECURSIVE SeqsUpTo(_, _)
SeqsUpTo(S, n) ==
    IF n = 0 THEN { <<>> }
    ELSE LET shorter == SeqsUpTo(S, n - 1)
         IN  shorter \cup { Append(q, x) : q \in shorter, x \in S }
Batches == SeqsUpTo(Feed, MaxBatch)

\* -------------------------------------------------------- pure functions
\* Faulty variant of NormalizeId: takes the first field that parses to a
\* non-zero integer, skipping a non-empty field that does not parse.
NormalizeMissingSkipped(a) ==
    LET cands == SelectSeq(<<a.S_NO, a.SEQ_NO, a.id>>,
                           LAMBDA v : PyInt(v).ok /\ PyInt(v).val # 0)
    IN  IF cands = <<>> THEN [ok |-> FALSE, val |-> 0]
        ELSE [ok |-> TRUE, val |-> PyInt(cands[1]).val]
\* lines 146-156: int(S_NO or SEQ_NO or id or 0); the record is skipped
\* (ok = FALSE) when int() raises or the result is 0.
NormalizeId(a) ==
    LET r == PyInt(Or(Or(Or(a.S_NO, a.SEQ_NO), a.id), IntV(0)))
    IN  IF r.ok /\ r.val # 0 THEN r ELSE [ok |-> FALSE, val |-> 0]

\* lines 144-158: the records that got an _id, in fetch order.
RECURSIVE Normalize(_)
Normalize(anns) ==
    IF anns = <<>> THEN <<>>
    ELSE LET r == NormalizeId(Head(anns))
         IN  IF r.ok
             THEN <<Head(anns) @@ [_id |-> r.val]>> \o Normalize(Tail(anns))
             ELSE Normalize(Tail(anns))

\* line 165: list.sort(key=_id), a stable ascending sort.
RECURSIVE InsertById(_, _)
InsertById(sorted, x) ==
    IF sorted = <<>> THEN <<x>>
    ELSE IF sorted[Len(sorted)]._id <= x._id THEN Append(sorted, x)
    ELSE Append(InsertById(SubSeq(sorted, 1, Len(sorted) - 1), x),
                sorted[Len(sorted)])
\* Faulty variant of SortById: the fetch order is kept.
SortByIdOmitted(s) == s
RECURSIVE SortById(_)
SortById(s) ==
    IF s = <<>> THEN <<>>
    ELSE InsertById(SortById(SubSeq(s, 1, Len(s) - 1)), s[Len(s)])

\* line 168: max(x["_id"] for x in norm), norm not empty.
MaxOfIds(s) == CHOOSE m \in { s[i]._id : i \in 1..Len(s) } :
                   \A i \in 1..Len(s) : s[i]._id <= m

\* lines 78-86
is_results_announcement(a) ==
    LET texts == <<a.ANN_TITLE, a.ANN_TYPE, a.description, a.title>>
        stripped == [i \in 1..4 |-> Strip(Or(texts[i], StrV("")).s)]
        fields == SelectSeq(stripped, LAMBDA v : v # "")
    IN  RESULTS_RE_search(fields)

\* lines 88-93
in_watchlist(a, codes) ==
    IF codes = <<>> THEN TRUE
    ELSE LET code == Strip(PyStr(Or(a.SCRIP_CD, StrV(""))))
         IN  \E i \in 1..Len(codes) : codes[i] = code

\* Faulty variant of Unseen: >= instead of >.
UnseenInclusive(norm, last_id) == SelectSeq(norm, LAMBDA a : a._id >= last_id)
\* line 171
Unseen(norm, last_id) == SelectSeq(norm, LAMBDA a : a._id > last_id)

\* The per-run maximum of notifications of the specification's Delivery
\* Limiter; notify.py has no such setting.
MaxAlerts == 1

\* Variant of ToAlert with the Delivery Limiter: the first MaxAlerts matches.
ToAlertCapped(unseen, codes) ==
    LET all == SelectSeq(unseen, LAMBDA a : in_watchlist(a, codes)
                                              /\ is_results_announcement(a))
    IN  IF Len(all) <= MaxAlerts THEN all ELSE SubSeq(all, 1, MaxAlerts)
\* Faulty variant of ToAlert: the watchlist is ignored.
ToAlertTopicOnly(unseen, codes) ==
    SelectSeq(unseen, LAMBDA a : is_results_announcement(a))
\* line 174
ToAlert(unseen, codes) ==
    SelectSeq(unseen, LAMBDA a : in_watchlist(a, codes) /\ is_results_announcement(a))

\* Faulty variant of MainSelect: no early return; with nothing to compare,
\* it saves the watermark it loaded.
MainSelectSavesOnEmpty(anns, last_id, codes) ==
    LET norm0 == Normalize(anns)
        norm == SortById(norm0)
        unseen == Unseen(norm, last_id)
    IN  [ returned |-> FALSE, norm |-> norm,
          newest_id_this_run |-> IF norm = <<>> THEN last_id ELSE MaxOfIds(norm),
          unseen |-> unseen, to_alert |-> ToAlert(unseen, codes) ]
\* Variant of MainSelect with a bootstrap: nothing is alerted when no
\* watermark was loaded.
MainSelectBootstrap(anns, last_id, codes) ==
    LET norm0 == Normalize(anns)
        norm == SortById(norm0)
        unseen == Unseen(norm, last_id)
    IN  IF anns = <<>> \/ norm0 = <<>>
        THEN [ returned |-> TRUE, norm |-> <<>>, newest_id_this_run |-> -1,
               unseen |-> <<>>, to_alert |-> <<>> ]
        ELSE [ returned |-> FALSE, norm |-> norm,
               newest_id_this_run |-> MaxOfIds(norm),
               unseen |-> unseen,
               to_alert |-> IF last_id = -1 THEN <<>> ELSE ToAlert(unseen, codes) ]
\* Faulty variant of MainSelect: the newest id is taken over the alerted
\* records instead of all normalized ones.
MainSelectNewestDelivered(anns, last_id, codes) ==
    LET norm0 == Normalize(anns)
        norm == SortById(norm0)
        unseen == Unseen(norm, last_id)
        to_alert == ToAlert(unseen, codes)
    IN  IF anns = <<>> \/ norm0 = <<>>
        THEN [ returned |-> TRUE, norm |-> <<>>, newest_id_this_run |-> -1,
               unseen |-> <<>>, to_alert |-> <<>> ]
        ELSE [ returned |-> FALSE, norm |-> norm,
               newest_id_this_run |->
                   IF to_alert = <<>> THEN last_id ELSE MaxOfIds(to_alert),
               unseen |-> unseen, to_alert |-> to_alert ]
\* lines 139-174 of main(): from the fetched list to the list to alert.
\* returned is TRUE when main() returns before reaching save_state
\* (lines 139-141 and 160-162).
MainSelect(anns, last_id, codes) ==
    LET norm0 == Normalize(anns)
        norm == SortById(norm0)
        unseen == Unseen(norm, last_id)
    IN  IF anns = <<>> \/ norm0 = <<>>
        THEN [ returned |-> TRUE, norm |-> <<>>, newest_id_this_run |-> -1,
               unseen |-> <<>>, to_alert |-> <<>> ]
        ELSE [ returned |-> FALSE, norm |-> norm,
               newest_id_this_run |-> MaxOfIds(norm),
               unseen |-> unseen, to_alert |-> ToAlert(unseen, codes) ]

\* ------------------------------------------------------------ state file
\* last_announcement.json: missing, not JSON, or {"last_id": v}.
Absent == [kind |-> "absent", last_id |-> None]
Garbage == [kind |-> "garbage", last_id |-> None]
Json(v) == [kind |-> "json", last_id |-> v]

\* The file exists and open() raises; the JSON document is not a dict or has
\* no "last_id" key.
Unreadable == [kind |-> "unreadable", last_id |-> None]
NoLastId == [kind |-> "no_last_id", last_id |-> None]

\* State files load_state cannot take a watermark from: not JSON, unreadable,
\* without last_id, last_id null, last_id not a number.
DamagedFiles == { Garbage, Unreadable, NoLastId, Json(None), Json(StrV("N/A")) }

\* Faulty variant of load_state: a file without readable watermark gives 0.
load_state_zero(file) ==
    IF file.kind = "json" /\ PyInt(file.last_id).ok
    THEN PyInt(file.last_id).val
    ELSE 0
\* lines 31-44
load_state(file) ==
    IF file.kind = "json" /\ PyInt(file.last_id).ok
    THEN PyInt(file.last_id).val
    ELSE -1

\* Faulty variant of save_state: a higher watermark in the file is kept.
save_state_if_higher(file, last_id) ==
    IF file.kind = "json" /\ PyInt(file.last_id).ok /\ PyInt(file.last_id).val > last_id
    THEN file
    ELSE Json(IntV(last_id))
\* lines 46-51: json.dump({"last_id": int(last_id)}) and os.replace, when
\* both succeed.
save_state(file, last_id) == Json(IntV(last_id))

\* Faulty variant of SaveStep: the state file is opened and written in place.
SaveStepInPlace(file, tmp, last_id, step) ==
    CASE step = "open"    -> [file |-> Garbage, tmp |-> tmp]
      [] step = "dump"    -> [file |-> Json(IntV(last_id)), tmp |-> tmp]
      [] OTHER            -> [file |-> file, tmp |-> tmp]
\* lines 47-51, step by step, when the step succeeds: open(tmp, "w") leaves
\* an empty tmp file, json.dump and the end of the with block complete it,
\* os.replace moves it onto STATE_FILE in one step.
SaveStep(file, tmp, last_id, step) ==
    CASE step = "open"    -> [file |-> file, tmp |-> Garbage]
      [] step = "dump"    -> [file |-> file, tmp |-> Json(IntV(last_id))]
      [] OTHER            -> [file |-> tmp, tmp |-> Absent]

\* Faulty variant of SaveFailure: a failed write leaves STATE_FILE truncated.
SaveFailureTruncates(file, tmp, step) ==
    CASE step = "dump"    -> [file |-> Garbage, tmp |-> Garbage]
      [] OTHER            -> [file |-> file, tmp |-> tmp]
\* lines 47-53, when the step raises: a failed open or os.replace changes no
\* file, a failed write leaves an incomplete tmp file.
SaveFailure(file, tmp, step) ==
    CASE step = "dump"    -> [file |-> file, tmp |-> Garbage]
      [] OTHER            -> [file |-> file, tmp |-> tmp]

\* Faulty variant of TgOutcomes: the message is posted without credentials.
TgOutcomesAlwaysPost(conf) == {"sent", "http_error", "exception"}
\* lines 95-110: what one call of tg_send can do.  It returns normally in
\* every case.
TgOutcomes(conf) ==
    IF conf THEN {"sent", "http_error", "exception"} ELSE {"skipped"}

\* Faulty variant of AfterSend: the state is saved after the first send.
AfterSendSavesEarly(out, k, n) == "save"
\* Faulty variant of AfterSend: an exception in tg_send ends the run.
AfterSendAbortsOnError(out, k, n) ==
    IF out = "exception" THEN "done" ELSE IF k < n THEN "send" ELSE "save"
\* lines 176-185: where main() goes after the k-th of n calls of tg_send.
AfterSend(out, k, n) == IF k < n THEN "send" ELSE "save"

\* ------------------------------------------------------------ pagination
\* line 21: MAX_PAGES, its default
MAX_PAGES == 3
\* line 74: the page size the loop takes as nominal
PageSize == 10

\* What one call of bse.announcements can do: raise, return None or {} (or
\* a dict without 'Table'), or return a dict with a 'Table' list.
PageRaise == [kind |-> "raise", Table |-> <<>>]
PageNone == [kind |-> "none", Table |-> <<>>]
PageTable(t) == [kind |-> "table", Table |-> t]

\* The records that fill a page up to the nominal size.
Filler == Ann(IntV(2), None, None, OtherTitle, StrV("Company Update"), StrV("500325"))
FullPage(r) == [i \in 1..PageSize |-> IF i < PageSize THEN Filler ELSE r]

\* The results filings the paginated feed can return.
PageRecords ==
    { Ann(IntV(n), None, None, ResultsTitle, None, StrV("500325")) : n \in {1, MaxId} }

\* Every outcome of one page request in the model: an error, no data, an
\* empty table, a short page, a full page.
PageResults ==
    { PageRaise, PageNone, PageTable(<<>>) }
    \cup { PageTable(<< r >>) : r \in PageRecords }
    \cup { PageTable(FullPage(r)) : r \in PageRecords }

\* Faulty variant of FetchStep: a failed request does not end the loop.
FetchStepContinuesOnError(list, page_data) ==
    IF page_data.kind # "table" \/ page_data.Table = <<>>
    THEN [anns |-> list, break |-> page_data.kind # "raise"]
    ELSE [anns |-> list \o page_data.Table,
          break |-> Len(page_data.Table) < PageSize]
\* Faulty variant of FetchStep: a short page does not end the loop.
FetchStepIgnoresShortPage(list, page_data) ==
    IF page_data.kind # "table" \/ page_data.Table = <<>>
    THEN [anns |-> list, break |-> TRUE]
    ELSE [anns |-> list \o page_data.Table, break |-> FALSE]
\* lines 61-75: one iteration of the loop of fetch_announcements, from the
\* result of the page request: the list so far and whether the loop breaks.
FetchStep(list, page_data) ==
    IF page_data.kind # "table" \/ page_data.Table = <<>>
    THEN [anns |-> list, break |-> TRUE]
    ELSE [anns |-> list \o page_data.Table,
          break |-> Len(page_data.Table) < PageSize]

\* ----------------------------------------------------------------- state
VARIABLES
    stateFile,           \* content of STATE_FILE
    WATCHLIST_CODES,     \* line 19
    configured,          \* BOT_TOKEN and CHAT_ID are both set (line 96)
    pc,                  \* where each process is in main()
    last_id,             \* main(): local last_id
    anns,                \* main(): local anns
    norm,                \* main(): local norm, after the sort
    newest_id_this_run,  \* main(): local
    unseen,              \* main(): local
    to_alert,            \* main(): local
    calls,               \* the calls of tg_send and save_state of this run
    before,              \* STATE_FILE as it was when this run loaded it
    tmpFile,             \* content of STATE_FILE + ".tmp"
    pages,               \* the page requests of this run and their results
    notified             \* history: ids passed to tg_send by the runs that ended

vars == << stateFile, WATCHLIST_CODES, configured, pc, last_id, anns, norm,
           newest_id_this_run, unseen, to_alert, calls, before, tmpFile,
           pages, notified >>

config == << WATCHLIST_CODES, configured >>
locals == << last_id, anns, norm, newest_id_this_run, unseen, to_alert >>

TgCalls(p) == SelectSeq(calls[p], LAMBDA c : c.op = "tg_send")
SaveCalls(p) == SelectSeq(calls[p], LAMBDA c : c.op = "save_state")

\* The ids this run has passed to tg_send.
PassedIds(p) == { TgCalls(p)[i].arg._id : i \in 1..Len(TgCalls(p)) }

Init ==
    /\ stateFile \in {Absent, Garbage}
    /\ WATCHLIST_CODES \in { <<>>, <<"500325">> }
    /\ configured \in BOOLEAN
    /\ pc = [p \in Procs |-> "idle"]
    /\ last_id = [p \in Procs |-> -1]
    /\ anns = [p \in Procs |-> <<>>]
    /\ norm = [p \in Procs |-> <<>>]
    /\ newest_id_this_run = [p \in Procs |-> -1]
    /\ unseen = [p \in Procs |-> <<>>]
    /\ to_alert = [p \in Procs |-> <<>>]
    /\ calls = [p \in Procs |-> <<>>]
    /\ before = [p \in Procs |-> Absent]
    /\ tmpFile = Absent
    /\ pages = [p \in Procs |-> <<>>]
    /\ notified = {}

\* The announcement fields are None or str where notify.py calls .strip()
\* on them, as the BSE API returns them; tg_send is passed the message
\* build_message makes of the record, recorded here as the record itself.

\* line 137
LoadState(p) ==
    /\ pc[p] = "idle"
    /\ last_id' = [last_id EXCEPT ![p] = load_state(stateFile)]
    /\ before' = [before EXCEPT ![p] = stateFile]
    /\ pc' = [pc EXCEPT ![p] = "fetch"]
    /\ UNCHANGED << stateFile, config, anns, norm, newest_id_this_run, unseen,
                    to_alert, calls, tmpFile, pages, notified >>

\* lines 138-174, for the lists fetch_announcements can return
FetchFrom(p, batches) ==
    /\ pc[p] = "fetch"
    /\ \E batch \in batches :
         LET r == MainSelect(batch, last_id[p], WATCHLIST_CODES)
         IN  /\ anns' = [anns EXCEPT ![p] = batch]
             /\ norm' = [norm EXCEPT ![p] = r.norm]
             /\ newest_id_this_run' =
                    [newest_id_this_run EXCEPT ![p] = r.newest_id_this_run]
             /\ unseen' = [unseen EXCEPT ![p] = r.unseen]
             /\ to_alert' = [to_alert EXCEPT ![p] = r.to_alert]
             /\ pc' = [pc EXCEPT ![p] =
                         IF r.returned THEN "done"
                         ELSE IF r.to_alert = <<>> THEN "save" ELSE "send"]
    /\ UNCHANGED << stateFile, config, last_id, calls, before, tmpFile,
                    pages, notified >>

Fetch(p) == FetchFrom(p, Batches)

\* lines 177-178: one iteration of the loop over to_alert
TgSend(p) ==
    /\ pc[p] = "send"
    /\ LET k == Len(TgCalls(p)) + 1
       IN  \E out \in TgOutcomes(configured) :
             /\ calls' = [calls EXCEPT ![p] =
                   Append(@, [op |-> "tg_send", arg |-> to_alert[p][k], out |-> out])]
             /\ pc' = [pc EXCEPT ![p] = AfterSend(out, k, Len(to_alert[p]))]
    /\ UNCHANGED << stateFile, config, locals, before, tmpFile, pages,
                    notified >>

\* line 185
SaveState(p) ==
    /\ pc[p] = "save"
    /\ stateFile' = save_state(stateFile, newest_id_this_run[p])
    /\ calls' = [calls EXCEPT ![p] =
          Append(@, [op |-> "save_state", arg |-> IntV(newest_id_this_run[p]),
                     out |-> "ok"])]
    /\ pc' = [pc EXCEPT ![p] = "done"]
    /\ UNCHANGED << config, locals, before, tmpFile, pages, notified >>

\* main() returns and the process ends; the next run starts afresh.
EndRun(p) ==
    /\ pc[p] = "done"
    /\ pc' = [pc EXCEPT ![p] = "idle"]
    /\ last_id' = [last_id EXCEPT ![p] = -1]
    /\ anns' = [anns EXCEPT ![p] = <<>>]
    /\ norm' = [norm EXCEPT ![p] = <<>>]
    /\ newest_id_this_run' = [newest_id_this_run EXCEPT ![p] = -1]
    /\ unseen' = [unseen EXCEPT ![p] = <<>>]
    /\ to_alert' = [to_alert EXCEPT ![p] = <<>>]
    /\ calls' = [calls EXCEPT ![p] = <<>>]
    /\ before' = [before EXCEPT ![p] = Absent]
    /\ pages' = [pages EXCEPT ![p] = <<>>]
    /\ UNCHANGED << stateFile, config, tmpFile >>

Exit(p) == EndRun(p) /\ UNCHANGED notified

\* The same step, with the history of delivered ids kept.
ExitRecorded(p) == EndRun(p) /\ notified' = notified \cup PassedIds(p)

\* Runs that do not overlap: one process slot runs main() again and again.
Runner == CHOOSE p \in Procs : \A q \in Procs : p <= q

Next ==
    \/ LoadState(Runner)
    \/ Fetch(Runner)
    \/ TgSend(Runner)
    \/ SaveState(Runner)
    \/ Exit(Runner)

Spec == Init /\ [][Next]_vars

\* The same runs, with the ids delivered by earlier runs remembered.
NextHistory ==
    \/ LoadState(Runner)
    \/ Fetch(Runner)
    \/ TgSend(Runner)
    \/ SaveState(Runner)
    \/ ExitRecorded(Runner)

SpecHistory == Init /\ [][NextHistory]_vars

\* ------------------------------------------- runs on a damaged state file
\* Between two runs something outside notify.py damages the state file.
Damage ==
    /\ pc[Runner] = "idle"
    /\ stateFile' \in DamagedFiles \ {stateFile}
    /\ UNCHANGED << config, pc, locals, calls, before, tmpFile, pages, notified >>

NextDamaged ==
    \/ Next
    \/ Damage

SpecDamaged == Init /\ [][NextDamaged]_vars

\* ------------------------------------------------------ runs that overlap
\* The feed before and after a later filing is published: two runs that
\* overlap fetch it at different moments.
FirstFiling == Ann(IntV(1), None, None, ResultsTitle, None, StrV("500325"))
LaterFiling == Ann(IntV(MaxId), None, None, ResultsTitle, None, StrV("500325"))
OverlapBatches == { <<>>, << FirstFiling >>, << FirstFiling, LaterFiling >> }

\* Two processes run main() on the same state file with no lock between them.
NextOverlap ==
    \E p \in Procs :
        \/ LoadState(p)
        \/ FetchFrom(p, OverlapBatches)
        \/ TgSend(p)
        \/ SaveState(p)
        \/ Exit(p)

SpecOverlap == Init /\ [][NextOverlap]_vars

\* ------------------------------------------------- runs, page by page
\* The step of save_state a process is about to take.
SaveStepAt(p) ==
    CASE pc[p] = "save"         -> "open"
      [] pc[p] = "save_dump"    -> "dump"
      [] pc[p] = "save_replace" -> "replace"
      [] OTHER                  -> "none"
AfterSaveStep(step) ==
    CASE step = "open" -> "save_dump"
      [] step = "dump" -> "save_replace"
      [] OTHER         -> "done"

\* lines 60-76 and 138-174: one page request of fetch_announcements; after
\* the last one main() goes on to select what to send.
FetchPage(p) ==
    /\ pc[p] = "fetch"
    /\ \E page_data \in PageResults :
         LET page == Len(pages[p]) + 1
             step == FetchStep(anns[p], page_data)
             last == step.break \/ page = MAX_PAGES
             r == MainSelect(step.anns, last_id[p], WATCHLIST_CODES)
         IN  /\ pages' = [pages EXCEPT ![p] =
                   Append(@, [page_no |-> page, page_data |-> page_data])]
             /\ anns' = [anns EXCEPT ![p] = step.anns]
             /\ norm' = [norm EXCEPT ![p] = IF last THEN r.norm ELSE @]
             /\ newest_id_this_run' = [newest_id_this_run EXCEPT ![p] =
                   IF last THEN r.newest_id_this_run ELSE @]
             /\ unseen' = [unseen EXCEPT ![p] = IF last THEN r.unseen ELSE @]
             /\ to_alert' = [to_alert EXCEPT ![p] = IF last THEN r.to_alert ELSE @]
             /\ pc' = [pc EXCEPT ![p] =
                   IF ~last THEN "fetch"
                   ELSE IF r.returned THEN "done"
                   ELSE IF r.to_alert = <<>> THEN "save" ELSE "send"]
    /\ UNCHANGED << stateFile, config, last_id, calls, before, tmpFile, notified >>

\* lines 47-51: one step of save_state(newest_id_this_run) that succeeds
SaveStateStep(p) ==
    /\ SaveStepAt(p) # "none"
    /\ LET r == SaveStep(stateFile, tmpFile, newest_id_this_run[p], SaveStepAt(p))
       IN  /\ stateFile' = r.file
           /\ tmpFile' = r.tmp
    /\ pc' = [pc EXCEPT ![p] = AfterSaveStep(SaveStepAt(p))]
    /\ calls' = [calls EXCEPT ![p] =
          IF SaveStepAt(p) = "replace"
          THEN Append(@, [op |-> "save_state", arg |-> IntV(newest_id_this_run[p]),
                          out |-> "ok"])
          ELSE @]
    /\ UNCHANGED << config, locals, before, pages, notified >>

\* lines 52-53: one step of save_state raises; the warning is printed and
\* save_state returns.
SaveStateFails(p) ==
    /\ SaveStepAt(p) # "none"
    /\ LET r == SaveFailure(stateFile, tmpFile, SaveStepAt(p))
       IN  /\ stateFile' = r.file
           /\ tmpFile' = r.tmp
    /\ pc' = [pc EXCEPT ![p] = "done"]
    /\ calls' = [calls EXCEPT ![p] =
          Append(@, [op |-> "save_state", arg |-> IntV(newest_id_this_run[p]),
                     out |-> "failed"])]
    /\ UNCHANGED << config, locals, before, pages, notified >>

\* The process is killed in the middle of main(): nothing more is written.
Crash(p) ==
    /\ pc[p] \notin {"idle", "done"}
    /\ pc' = [pc EXCEPT ![p] = "idle"]
    /\ last_id' = [last_id EXCEPT ![p] = -1]
    /\ anns' = [anns EXCEPT ![p] = <<>>]
    /\ norm' = [norm EXCEPT ![p] = <<>>]
    /\ newest_id_this_run' = [newest_id_this_run EXCEPT ![p] = -1]
    /\ unseen' = [unseen EXCEPT ![p] = <<>>]
    /\ to_alert' = [to_alert EXCEPT ![p] = <<>>]
    /\ calls' = [calls EXCEPT ![p] = <<>>]
    /\ before' = [before EXCEPT ![p] = Absent]
    /\ pages' = [pages EXCEPT ![p] = <<>>]
    /\ UNCHANGED << stateFile, config, tmpFile, notified >>

\* Runs with save_state taken step by step, failures of its steps and
\* crashes.
NextSave ==
    \/ LoadState(Runner)
    \/ FetchPage(Runner)
    \/ TgSend(Runner)
    \/ SaveStateStep(Runner)
    \/ SaveStateFails(Runner)
    \/ Exit(Runner)
    \/ Crash(Runner)

SpecSave == Init /\ [][NextSave]_vars

\* A second process that only reads the state file while the first one runs.
Reader == CHOOSE p \in Procs : p # Runner

\* The same runs, with a concurrent load_state at any moment.
NextSaveRead ==
    \/ NextSave
    \/ LoadState(Reader)
    \/ Crash(Reader)

SpecSaveRead == Init /\ [][NextSaveRead]_vars

NextPages ==
    \/ LoadState(Runner)
    \/ FetchPage(Runner)
    \/ TgSend(Runner)
    \/ SaveState(Runner)
    \/ Exit(Runner)

\* Every call main() makes returns or raises (requests.post has a timeout,
\* line 102), so a run that can take a step takes it: weak fairness of each
\* step.  For FetchPage it is written out, with pc[p] = "fetch" for
\* ENABLED <<FetchPage(p)>>_vars: a page request is possible exactly there.
FairPages ==
    /\ WF_vars(LoadState(Runner))
    /\ \/ []<>(pc[Runner] # "fetch")
       \/ []<><<FetchPage(Runner)>>_vars
    /\ WF_vars(TgSend(Runner))
    /\ WF_vars(SaveState(Runner))
    /\ WF_vars(Exit(Runner))

SpecPages == Init /\ [][NextPages]_vars /\ FairPages

\* ------------------------------------------------- vocabulary of the claims
\* The state file holds a watermark: an integer load_state can read.
HasWatermark(file) == file.kind = "json" /\ PyInt(file.last_id).ok
Watermark(file) == PyInt(file.last_id).val

\* The first of S_NO, SEQ_NO, id that is not None, 0 or "".
FirstSet(a) ==
    IF Truthy(a.S_NO) THEN a.S_NO
    ELSE IF Truthy(a.SEQ_NO) THEN a.SEQ_NO
    ELSE IF Truthy(a.id) THEN a.id ELSE None
\* The record has a usable id: that field is a non-zero integer.
Usable(a) == PyInt(FirstSet(a)).ok /\ PyInt(FirstSet(a)).val # 0
SeqId(a) == PyInt(FirstSet(a)).val

\* Positions in the fetched list of the records with a usable id.
WithId(p) == { i \in 1..Len(anns[p]) : Usable(anns[p][i]) }
FetchedIds(p) == { SeqId(anns[p][i]) : i \in WithId(p) }
MaxFetchedId(p) == CHOOSE m \in FetchedIds(p) : \A n \in FetchedIds(p) : n <= m

Range(s) == { s[i] : i \in 1..Len(s) }
Failed(out) == out \in {"http_error", "exception"}
Running(p) == pc[p] \in {"send", "save", "done"}

\* C1: no sequence id is passed to tg_send in two different runs.
C1_NoIdNotifiedInTwoRuns ==
    \A p \in Procs : PassedIds(p) \cap notified = {}

\* C2: the watermark persisted after a completed run is greater than or equal
\* to the watermark persisted before it.
C2_WatermarkNeverDecreases ==
    \A p \in Procs :
        (pc[p] = "done" /\ HasWatermark(before[p]) /\ HasWatermark(stateFile))
            => Watermark(stateFile) >= Watermark(before[p])

\* C3: no record whose sequence id is less than or equal to the watermark
\* loaded at the start of the run is passed to tg_send (an absent watermark
\* is loaded as -1).
C3_NoSeenRecordNotified ==
    \A p \in Procs : \A i \in 1..Len(TgCalls(p)) :
        /\ HasWatermark(before[p]) => TgCalls(p)[i].arg._id > Watermark(before[p])
        /\ TgCalls(p)[i].arg._id > -1
C3_Witness ==
    \E p \in Procs :
        /\ pc[p] = "done"
        /\ HasWatermark(before[p])
        /\ TgCalls(p) # <<>>
        /\ \E i \in WithId(p) :
             /\ SeqId(anns[p][i]) <= Watermark(before[p])
             /\ is_results_announcement(anns[p][i])
             /\ in_watchlist(anns[p][i], WATCHLIST_CODES)

\* The watermark the run started from: -1 when the file held none.
StartWatermark(p) == IF HasWatermark(before[p]) THEN Watermark(before[p]) ELSE -1

\* The company code of a record, as text.
EntityCode(a) ==
    CASE a.SCRIP_CD.t = "int" /\ a.SCRIP_CD.n # 0 -> IntRepr[a.SCRIP_CD.n]
      [] a.SCRIP_CD.t = "str" -> Strip(a.SCRIP_CD.s)
      [] OTHER -> ""
Watched(a) == WATCHLIST_CODES = <<>> \/ EntityCode(a) \in Range(WATCHLIST_CODES)

\* Positions of the fetched records with an id above w that pass the topic
\* and the watchlist predicate.
Selected(p, w) ==
    { i \in WithId(p) : /\ SeqId(anns[p][i]) > w
                        /\ is_results_announcement(anns[p][i])
                        /\ Watched(anns[p][i]) }
Tagged(a) == a @@ [_id |-> SeqId(a)]

\* The records passed to tg_send are exactly the Selected ones, each as often
\* as it was fetched.
DeliveredExactly(p, w) ==
    /\ Len(TgCalls(p)) = Cardinality(Selected(p, w))
    /\ \A i \in Selected(p, w) :
         Cardinality({ k \in 1..Len(TgCalls(p)) : TgCalls(p)[k].arg = Tagged(anns[p][i]) })
           = Cardinality({ j \in Selected(p, w) : anns[p][j] = anns[p][i] })

\* C4 as claimed: a run that starts without state file and fetches at least
\* one record (here: one that has a sequence id) delivers no notification and
\* leaves the maximum fetched id as watermark.
C4_BootstrapSendsNothing ==
    \A p \in Procs :
        (pc[p] = "done" /\ before[p] = Absent /\ WithId(p) # {})
            => /\ \A k \in 1..Len(TgCalls(p)) : TgCalls(p)[k].out # "sent"
               /\ stateFile = Json(IntV(MaxFetchedId(p)))

\* C4 as amended: a run that starts without state file and fetches at least
\* one record with a usable id passes to tg_send exactly the fetched records
\* with id > -1 that pass both filters, and leaves the maximum usable id as
\* watermark.
C4_FirstRunNotifiesAndSeeds ==
    \A p \in Procs :
        (pc[p] = "done" /\ before[p] = Absent /\ WithId(p) # {})
            => /\ DeliveredExactly(p, -1)
               /\ stateFile = Json(IntV(MaxFetchedId(p)))
C4_Witness ==
    \E p \in Procs :
        /\ pc[p] = "done" /\ before[p] = Absent
        /\ \E k \in 1..Len(TgCalls(p)) : TgCalls(p)[k].out = "sent"
        /\ HasWatermark(stateFile)
        /\ \E i \in WithId(p) : SeqId(anns[p][i]) < 0

\* C5 as claimed: the number of tg_send calls of a run is at most the
\* configured maximum.
C5_DeliveryCap ==
    \A p \in Procs : Len(TgCalls(p)) <= MaxAlerts

\* C5 as amended: there is no maximum; once the loop over to_alert has ended
\* the number of tg_send calls equals the number of filtered matches, so
\* nothing is withheld.
C5_EveryMatchNotified ==
    \A p \in Procs :
        pc[p] \in {"save", "done"}
            => Len(TgCalls(p)) = Cardinality(Selected(p, StartWatermark(p)))
C5_Witness ==
    \E p \in Procs : pc[p] = "done" /\ Len(TgCalls(p)) > MaxAlerts

\* C6: a run whose fetch returns no record calls neither tg_send nor
\* save_state and leaves the state file as it was.
C6_EmptyFetchIsNoOp ==
    \A p \in Procs :
        (Running(p) /\ anns[p] = <<>>)
            => /\ pc[p] = "done"
               /\ calls[p] = <<>>
               /\ stateFile = before[p]
C6_Witness ==
    \E p \in Procs :
        pc[p] = "done" /\ anns[p] = <<>> /\ HasWatermark(before[p])

LastCall(p) == calls[p][Len(calls[p])]

\* C7 as claimed: a run that fetches at least one record calls save_state
\* exactly once, as its last call, with the maximum id of the fetched records.
C7_SavedOncePerNonEmptyFetch ==
    \A p \in Procs :
        (pc[p] = "done" /\ anns[p] # <<>>)
            => /\ Len(SaveCalls(p)) = 1
               /\ LastCall(p).op = "save_state"
               /\ WithId(p) # {}
               /\ LastCall(p).arg = IntV(MaxFetchedId(p))

\* C7 as amended: a run that fetches at least one record with a usable id
\* calls save_state exactly once, after all its tg_send calls, with the
\* maximum over all fetched records that have a usable id, delivered or not;
\* a run that fetches no such record does not write the watermark.
C7_SavedOnceAfterSends ==
    \A p \in Procs :
        /\ pc[p] \in {"send", "save"} => SaveCalls(p) = <<>>
        /\ (pc[p] = "done" /\ WithId(p) # {})
              => /\ Len(SaveCalls(p)) = 1
                 /\ LastCall(p).op = "save_state"
                 /\ LastCall(p).arg = IntV(MaxFetchedId(p))
                 /\ stateFile = Json(IntV(MaxFetchedId(p)))
        /\ (pc[p] = "done" /\ WithId(p) = {})
              => SaveCalls(p) = <<>> /\ stateFile = before[p]
C7_Witness ==
    \E p \in Procs :
        /\ pc[p] = "done"
        /\ TgCalls(p) # <<>>
        /\ \A n \in PassedIds(p) : n < Watermark(stateFile)
        /\ LastCall(p).op = "save_state"

\* C8 as claimed: every fetched record is in the normalized batch.
C8_NoRecordDropped ==
    \A p \in Procs : Running(p) => Len(norm[p]) = Len(anns[p])

\* C8 as amended: the normalized batch holds exactly the fetched records whose
\* first non-empty field among S_NO, SEQ_NO, id is a non-zero integer, each
\* with that integer as sequence id; every other fetched record is dropped.
C8_RecordsWithoutIdDropped ==
    \A p \in Procs :
        Running(p)
            => /\ Len(norm[p]) = Cardinality(WithId(p))
               /\ \A i \in WithId(p) :
                    Cardinality({ k \in 1..Len(norm[p]) : norm[p][k] = Tagged(anns[p][i]) })
                      = Cardinality({ j \in WithId(p) : anns[p][j] = anns[p][i] })
C8_Witness ==
    \E p \in Procs :
        /\ Running(p)
        /\ Len(norm[p]) = 1
        /\ \E i \in 1..Len(anns[p]) :
             anns[p][i].S_NO = StrV("N/A") /\ anns[p][i].SEQ_NO = IntV(2)

\* C9: a run that starts with watermark W passes to tg_send exactly the
\* fetched records with sequence id > W that are results announcements and
\* whose company code is in the watchlist, or the watchlist is empty.
C9_DeliversUnseenMatches ==
    \A p \in Procs :
        (pc[p] \in {"save", "done"} /\ HasWatermark(before[p]))
            => DeliveredExactly(p, Watermark(before[p]))
C9_Witness ==
    \E p \in Procs :
        /\ pc[p] = "done"
        /\ HasWatermark(before[p])
        /\ WATCHLIST_CODES # <<>>
        /\ TgCalls(p) # <<>>
        /\ \E i \in WithId(p) :
             /\ SeqId(anns[p][i]) > Watermark(before[p])
             /\ is_results_announcement(anns[p][i])
             /\ ~Watched(anns[p][i])
        /\ stateFile = Json(IntV(MaxFetchedId(p)))

\* C10: after a tg_send call that failed, the run still passes every selected
\* record to tg_send and ends with save_state advancing the watermark to the
\* maximum fetched id.
C10_FailedSendDoesNotStopRun ==
    \A p \in Procs :
        (pc[p] = "done" /\ \E k \in 1..Len(TgCalls(p)) : Failed(TgCalls(p)[k].out))
            => /\ Len(TgCalls(p)) = Cardinality(Selected(p, StartWatermark(p)))
               /\ LastCall(p).op = "save_state"
               /\ stateFile = Json(IntV(MaxFetchedId(p)))
C10_Witness ==
    \E p \in Procs :
        /\ pc[p] = "done"
        /\ Len(TgCalls(p)) >= 2
        /\ TgCalls(p)[1].out = "exception"
        /\ TgCalls(p)[2].out = "http_error"
        /\ LastCall(p).op = "save_state"
        /\ stateFile # before[p]

\* C14: without Telegram credentials the run posts nothing, still calls
\* tg_send for every selected record and ends with save_state advancing the
\* watermark to the maximum fetched id, the value a configured run writes.
C14_UnconfiguredRunStillAdvances ==
    \A p \in Procs :
        ~configured
            => /\ \A k \in 1..Len(TgCalls(p)) : TgCalls(p)[k].out = "skipped"
               /\ pc[p] = "done"
                    => /\ Len(TgCalls(p)) = Cardinality(Selected(p, StartWatermark(p)))
                       /\ WithId(p) # {}
                            => /\ LastCall(p).op = "save_state"
                               /\ stateFile = Json(IntV(MaxFetchedId(p)))
C14_Witness ==
    \E p \in Procs :
        /\ ~configured
        /\ pc[p] = "done"
        /\ TgCalls(p) # <<>>
        /\ stateFile = Json(IntV(MaxFetchedId(p)))
        /\ stateFile # before[p]

\* C19: within one run tg_send is called in ascending order of sequence id,
\* whatever the order of the fetched list.
C19_AscendingDelivery ==
    \A p \in Procs : \A i, j \in 1..Len(TgCalls(p)) :
        i < j => TgCalls(p)[i].arg._id <= TgCalls(p)[j].arg._id
C19_Witness ==
    \E p \in Procs :
        /\ pc[p] = "done"
        /\ Len(anns[p]) = 2 /\ WithId(p) = {1, 2}
        /\ SeqId(anns[p][1]) > SeqId(anns[p][2])
        /\ Len(TgCalls(p)) = 2
        /\ TgCalls(p)[1].arg._id < TgCalls(p)[2].arg._id

\* ------------------------------------------------------- claims on pages
\* The page requests of this run that raised.
RaisedAt(p) == { k \in 1..Len(pages[p]) : pages[p][k].page_data.kind = "raise" }
\* The records of the first k pages of this run, in fetch order.
RECURSIVE TablesUpTo(_, _)
TablesUpTo(p, k) ==
    IF k = 0 THEN <<>> ELSE TablesUpTo(p, k - 1) \o pages[p][k].page_data.Table

\* C11: when the request of page k raises, no later page is requested, the
\* fetched list is the records of pages 1..k-1 in fetch order, and the run
\* delivers the selected ones of them and saves their maximum id like any run.
C11_FailedPageEndsFetch ==
    \A p \in Procs : \A k \in RaisedAt(p) :
        /\ k = Len(pages[p])
        /\ anns[p] = TablesUpTo(p, k - 1)
        /\ pc[p] # "fetch"
        /\ pc[p] = "done"
             => /\ DeliveredExactly(p, StartWatermark(p))
                /\ WithId(p) # {}
                     => /\ LastCall(p).op = "save_state"
                        /\ stateFile = Json(IntV(MaxFetchedId(p)))
C11_Witness ==
    \E p \in Procs :
        /\ RaisedAt(p) = {2}
        /\ Len(anns[p]) = PageSize
        /\ pc[p] = "done"
        /\ \E k \in 1..Len(TgCalls(p)) : TgCalls(p)[k].out = "sent"
        /\ stateFile = Json(IntV(MaxFetchedId(p)))
        /\ stateFile # before[p]

\* The page requests of a run are pages 1, 2, ... in order, at most MAX_PAGES
\* of them, and every request but the last returned a full page.
PagesInOrder(p) ==
    /\ Len(pages[p]) <= MAX_PAGES
    /\ \A k \in 1..Len(pages[p]) :
         /\ pages[p][k].page_no = k
         /\ k < Len(pages[p])
              => /\ pages[p][k].page_data.kind = "table"
                 /\ Len(pages[p][k].page_data.Table) >= PageSize

\* C17: pages are requested in increasing order, at most MAX_PAGES of them,
\* none after a page that failed, was empty or was short; and every run that
\* has started reaches the end of main().
C17_PaginationTerminates ==
    /\ [](\A p \in Procs : PagesInOrder(p))
    /\ \A p \in Procs : (pc[p] = "fetch") ~> (pc[p] = "done")
C17_Witness ==
    \E p \in Procs :
        /\ pc[p] = "done"
        /\ Len(pages[p]) = MAX_PAGES
        /\ Len(anns[p]) = MAX_PAGES * PageSize
        /\ SaveCalls(p) # <<>>

\* C18 as claimed: within one run no two calls of tg_send are for the same
\* sequence id.
C18_OneNotificationPerId ==
    \A p \in Procs : \A i, j \in 1..Len(TgCalls(p)) :
        i # j => TgCalls(p)[i].arg._id # TgCalls(p)[j].arg._id

\* C13 as claimed: a run that loaded a damaged state file and fetched a record
\* with a sequence id delivers no notification and seeds the watermark.
C13_DamagedFileBootstraps ==
    \A p \in Procs :
        (pc[p] = "done" /\ before[p] \in DamagedFiles /\ WithId(p) # {})
            => /\ \A k \in 1..Len(TgCalls(p)) : TgCalls(p)[k].out # "sent"
               /\ stateFile = Json(IntV(MaxFetchedId(p)))

\* C13 as amended: on a damaged state file load_state returns -1, as for a
\* missing one, and the run goes on: it passes to tg_send exactly the fetched
\* records with id > -1 that pass both filters and, when a record has a usable
\* id, leaves the maximum usable id as watermark.
C13_DamagedFileReadAsAbsent ==
    \A p \in Procs :
        (pc[p] # "idle" /\ before[p] \in DamagedFiles)
            => /\ last_id[p] = load_state(Absent)
               /\ last_id[p] = -1
               /\ pc[p] = "done"
                    => /\ DeliveredExactly(p, -1)
                       /\ WithId(p) # {} => stateFile = Json(IntV(MaxFetchedId(p)))
C13_Witness ==
    \E p \in Procs :
        /\ pc[p] = "done"
        /\ before[p] = Json(StrV("N/A"))
        /\ \E k \in 1..Len(TgCalls(p)) : TgCalls(p)[k].out = "sent"
        /\ stateFile = Json(IntV(MaxFetchedId(p)))

\* ------------------------------------------------- claims on save_state
InSave(p) == SaveStepAt(p) # "none"
BeforeReplace(p) == pc[p] \in {"fetch", "send", "save", "save_dump", "save_replace"}
\* The two complete values the state file can hold during a run: what the run
\* found and what it saves.
OldOrNew(p) == { before[p], Json(IntV(newest_id_this_run[p])) }
\* A step in which process p is killed.
Crashes(p) == pc[p] \notin {"idle", "done"} /\ pc'[p] = "idle"

\* C12: during a save, at each of its steps and after a crash at any of them,
\* the state file holds the complete previous content or the complete new
\* watermark, and a load_state of another process at that time returns one of
\* the two.
C12_SaveIsAtomic ==
    /\ [](\A p \in Procs : (InSave(p) \/ pc[p] = "done") => stateFile \in OldOrNew(p))
    /\ [][ /\ \A p \in Procs : InSave(p) /\ Crashes(p) => stateFile' \in OldOrNew(p)
           /\ (pc[Reader] = "idle" /\ pc'[Reader] = "fetch"
                 /\ (InSave(Runner) \/ pc[Runner] = "done"))
                => /\ before'[Reader] \in OldOrNew(Runner)
                   /\ last_id'[Reader] \in { load_state(f) : f \in OldOrNew(Runner) }
         ]_vars
C12_Witness ==
    /\ pc[Runner] = "save_replace"
    /\ tmpFile = Json(IntV(newest_id_this_run[Runner]))
    /\ HasWatermark(before[Runner])
    /\ newest_id_this_run[Runner] # Watermark(before[Runner])
    /\ pc[Reader] = "fetch"
    /\ before[Reader] = stateFile
    /\ last_id[Reader] = Watermark(before[Runner])

\* C15: when a step of save_state fails, the run still ends normally, the
\* state file is as the run found it, and every record the run selected is
\* still above the watermark the next run will load.
C15_FailedSaveKeepsWatermark ==
    \A p \in Procs :
        (pc[p] = "done" /\ calls[p] # <<>> /\ LastCall(p).out = "failed")
            => /\ stateFile = before[p]
               /\ Len(SaveCalls(p)) = 1
               /\ DeliveredExactly(p, StartWatermark(p))
               /\ \A i \in Selected(p, StartWatermark(p)) :
                    SeqId(anns[p][i]) > load_state(stateFile)
C15_Witness ==
    \E p \in Procs :
        /\ pc[p] = "done"
        /\ calls[p] # <<>> /\ LastCall(p).out = "failed"
        /\ tmpFile = Garbage
        /\ HasWatermark(before[p])
        /\ TgCalls(p) # <<>>
        /\ stateFile = before[p]

\* C20: in every run all calls of tg_send precede save_state; until os.replace
\* the state file is as the run found it, so a crash before it leaves every
\* selected record above the persisted watermark; once the file has changed,
\* tg_send has been called for every selected record.
C20_NotifyBeforeSave ==
    /\ [](\A p \in Procs :
            /\ BeforeReplace(p)
                 => /\ stateFile = before[p]
                    /\ \A k \in 1..Len(to_alert[p]) :
                         to_alert[p][k]._id > load_state(stateFile)
            /\ (pc[p] # "idle" /\ (stateFile # before[p] \/ InSave(p)))
                 => Len(TgCalls(p)) = Len(to_alert[p])
            /\ \A i, j \in 1..Len(calls[p]) :
                 (calls[p][i].op = "save_state" /\ i < j) => calls[p][j].op # "tg_send")
    /\ [][\A p \in Procs : Crashes(p) => stateFile' = before[p]]_vars
C20_Witness ==
    \E p \in Procs :
        /\ pc[p] = "save_replace"
        /\ Len(TgCalls(p)) = 2
        /\ tmpFile = Json(IntV(newest_id_this_run[p]))
        /\ HasWatermark(before[p])
        /\ stateFile = before[p]
        /\ newest_id_this_run[p] > Watermark(stateFile)

\* ------------------------------------------------- claims on overlap
\* C16: runs that overlap are not guarded against each other: each delivers
\* the matches above the watermark it loaded itself, and its save_state
\* overwrites the state file with its own newest id without comparing; so
\* two runs can notify the same record, and the later save can put a lower
\* watermark over a higher one.
C16_OverlappingRunsRace ==
    /\ [](\A p \in Procs :
            (pc[p] = "done" /\ WithId(p) # {})
                => /\ DeliveredExactly(p, StartWatermark(p))
                   /\ LastCall(p).op = "save_state"
                   /\ LastCall(p).arg = IntV(MaxFetchedId(p)))
    /\ [][\A p \in Procs :
            (pc[p] = "save" /\ pc'[p] = "done")
                => stateFile' = Json(IntV(newest_id_this_run[p]))]_vars
C16_Witness ==
    \E p, q \in Procs :
        /\ p # q
        /\ pc[p] = "done" /\ pc[q] = "done"
        /\ before[p] = before[q]
        /\ \E i \in 1..Len(TgCalls(p)), j \in 1..Len(TgCalls(q)) :
             /\ TgCalls(p)[i].arg._id = TgCalls(q)[j].arg._id
             /\ TgCalls(p)[i].out = "sent" /\ TgCalls(q)[j].out = "sent"
        /\ SaveCalls(p) # <<>> /\ SaveCalls(q) # <<>>
        /\ newest_id_this_run[q] < newest_id_this_run[p]
        /\ stateFile = Json(IntV(newest_id_this_run[q]))

====
